---- MODULE Spec2Model ----
(***************************************************************************)
(* A model of browser_cookie3 (src/__init__.py): the Chrome and Firefox    *)
(* cookie extractors and the all-browsers entry point load().              *)
(*                                                                         *)
(* Conventions                                                             *)
(*  - text and bytes are sequences of one-character tokens;                *)
(*  - an optional value is a sequence of length 0 (None) or 1;             *)
(*  - time is counted in whole days: a Chrome expires_utc of d stands for  *)
(*    d * 86400 * 10^6 microseconds since 1601-01-01 and a cookie expiry   *)
(*    of e for e * 86400 seconds since 1970-01-01 (the real magnitudes do  *)
(*    not fit TLC's 32-bit integers);                              *)
(*  - a cookie jar (http.cookiejar.CookieJar) is the set of its cookies;   *)
(*  - objects are reclaimed by reference counting: a temporary dies when   *)
(*    the statement that made it ends, and an object referenced from the   *)
(*    frames of a propagating exception lives as long as that exception.   *)
(***************************************************************************)
EXTENDS Integers, Sequences, FiniteSets, TLC

None == "None"

Some(x) == <<x>>

\* ------------------------------------------------------------------ bounds

\* Longest store (number of rows) a snapshot may hold.
MaxRows == 2

\* ------------------------------------------------------- program constants

\* datetime.datetime(1601,1,1): days from 1601-01-01 to 1970-01-01.
EpochDeltaDays == 134774

\* Last day offset from 1601-01-01 that datetime can represent (9999-12-31).
MaxDeltaDays == 3067670

\* First day offset from 1601-01-01 that datetime can represent (0001-01-01).
MinDeltaDays == -584388

\* 3600 * 24 * 7 seconds, in days.
SessionDays == 7

\* b'v10'
Marker == <<"v", "1", "0">>

\* The order in which load() visits the browsers.
ReversedOrder == <<"firefox", "chrome">>

BrowserOrder == <<"chrome", "firefox">>

Platforms == {"darwin", "linux", "win32", "sunos"}

DerivedKeyPlatforms == {"darwin", "linux"}

\* ------------------------------------------------------------------- text

Lower(ch) == IF ch = "A" THEN "a" ELSE IF ch = "B" THEN "b" ELSE ch

LowerStr(s) == [i \in 1..Len(s) |-> Lower(s[i])]

Take(s, n) == SubSeq(s, 1, IF n < Len(s) THEN n ELSE Len(s))

Drop(s, n) == SubSeq(s, n + 1, Len(s))

\* f occurs in s as a contiguous, case-sensitive substring.
Contains(s, f) ==
    \E i \in 0..Len(s) : i + Len(f) <= Len(s) /\ SubSeq(s, i + 1, i + Len(f)) = f

\* SQLite's LIKE: % matches any run, _ any one character, letters match
\* regardless of case.
RECURSIVE LikeMatch(_, _)
LikeMatch(p, s) ==
    IF p = <<>> THEN s = <<>>
    ELSE IF Head(p) = "%"
         THEN LikeMatch(Tail(p), s) \/ (s # <<>> /\ LikeMatch(p, Tail(s)))
         ELSE /\ s # <<>>
              /\ (Head(p) = "_" \/ Lower(Head(p)) = Lower(Head(s)))
              /\ LikeMatch(Tail(p), Tail(s))

\* '... like "%{}%"'.format(domain_name)
LikePattern(domain_name) == <<"%">> \o domain_name \o <<"%">>

RECURSIVE SelectSeq2(_, _)
SelectSeq2(rows, f) ==
    IF rows = <<>> THEN <<>>
    ELSE (IF LikeMatch(LikePattern(f), Head(rows).host) THEN <<Head(rows)>> ELSE <<>>)
         \o SelectSeq2(Tail(rows), f)

\* The rows a "select ... where host like ..." returns, in store order.
SelectLike(rows, domain_name) == SelectSeq2(rows, domain_name)

\* ------------------------------------------------------------- cookie jar

Key(c) == <<c.domain, c.path, c.name>>

\* http.cookiejar.Cookie as built by create_cookie: the domain is
\* lower-cased, the expiry is kept as given (None stays None).
create_cookie(host, path, secure, expires, name, value) ==
    [domain |-> LowerStr(host), path |-> path, secure |-> secure,
     expires |-> expires, name |-> name, value |-> value]

\* CookieJar.set_cookie: _cookies[domain][path][name] = cookie.
set_cookie(jar, c) == {x \in jar : Key(x) # Key(c)} \cup {c}

RECURSIVE SetAll(_, _)
SetAll(jar, cookies) ==
    IF cookies = {} THEN jar
    ELSE LET c == CHOOSE x \in cookies : TRUE
         IN  SetAll(set_cookie(jar, c), cookies \ {c})

RECURSIVE SetSeq(_, _)
SetSeq(jar, cookies) ==
    IF cookies = <<>> THEN jar
    ELSE SetSeq(set_cookie(jar, Head(cookies)), Tail(cookies))

\* ------------------------------------------------- python values for "or"

\* A value of the cookie_file expression: a path string, None, or the list
\* a glob returns.
Str(p) == [kind |-> "str", v |-> <<p>>]

NoneV == [kind |-> "none", v |-> <<>>]

List(l) == [kind |-> "list", v |-> l]

\* Python truthiness of such a value.
Truthy(x) == x.v # <<>>

\* a or b or c ...: the first truthy operand, else the last one.
RECURSIVE PyOr(_)
PyOr(xs) ==
    IF Len(xs) = 1 \/ Truthy(Head(xs)) THEN Head(xs) ELSE PyOr(Tail(xs))

\* glob.glob(p) for a pattern that names one file.
Glob(disk, p) == List(IF p \in disk THEN <<p>> ELSE <<>>)

\* os.path.expanduser(p): always a non-empty string.
ExpandUser(p) == Str(p)

\* --------------------------------------------------------- the file system

ExplicitPath == "explicit/Cookies"

MacChrome == "~/Library/Application Support/Google/Chrome/Default/Cookies"

LinuxChrome ==
    << "~/.config/google-chrome/Default/Cookies",
       "~/.config/chromium/Default/Cookies",
       "~/.config/google-chrome-beta/Default/Cookies" >>

WinPolicyPath == "UserDataDir/Default/Cookies"

WinChrome ==
    << "APPDATA/../Local/Google/Chrome/User Data/Default/Cookies",
       "LOCALAPPDATA/Google/Chrome/User Data/Default/Cookies",
       "APPDATA/Google/Chrome/User Data/Default/Cookies" >>

\* The cookie store of the profile that profiles.ini marks default and
\* relative.
FfProfilePath == "firefox/<Path>/cookies.sqlite"

LinuxFirefox == << "~/.mozilla/firefox/*default*/cookies.sqlite" >>

WinFirefox ==
    << "PROGRAMFILES/Mozilla Firefox/profile/cookies.sqlite",
       "PROGRAMFILES(X86)/Mozilla Firefox/profile/cookies.sqlite",
       "APPDATA/Mozilla/Firefox/Profiles/*default*/cookies.sqlite",
       "LOCALAPPDATA/Mozilla/Firefox/Profiles/*default*/cookies.sqlite" >>

Range(s) == {s[i] : i \in 1..Len(s)}

\* The paths Chrome.__init__ may look at when no cookie_file is given.
ChromePaths(plat, pol) ==
    CASE plat = "darwin" -> {MacChrome}
      [] plat = "linux"  -> Range(LinuxChrome)
      [] plat = "win32"  -> Range(WinChrome) \cup (IF pol THEN {WinPolicyPath} ELSE {})
      [] OTHER           -> {}

\* The paths Firefox.find_cookie_file may look at.
FirefoxPaths(plat, manifest) ==
    (CASE plat = "linux" -> Range(LinuxFirefox)
       [] plat = "win32" -> Range(WinFirefox)
       [] OTHER          -> {})
    \cup (IF manifest /\ plat \in {"linux", "win32"} THEN {FfProfilePath} ELSE {})

\* Most stores and profiles present on the machine at once.
MaxFiles == 2

\* ------------------------------------------------------------ store content

HostA == <<"a">>

HostAB == <<"a", "b">>

HostB == <<"b">>

\* expires_utc values (days since 1601-01-01): a session cookie, a date in
\* 2011, a date past year 9999.
ValidTs == EpochDeltaDays + 15000

OverflowTs == MaxDeltaDays + 1

\* Rows of a Chrome-family store:
\*   host_key, path, secure, expires_utc, name, value, encrypted_value.
CRow(h, ts, n, v, e) ==
    [host |-> h, path |-> <<"/">>, secure |-> FALSE, expires_utc |-> ts,
     name |-> n, value |-> v, encrypted_value |-> e]

ChromeRowChoices ==
    { CRow(HostA,  0,          "n", <<"v">>, <<>>),
      CRow(HostAB, ValidTs,    "n", <<>>,    Marker \o <<"c1", "c2">>),
      CRow(HostA,  OverflowTs, "m", <<"v">>, <<>>),
      CRow(HostAB, ValidTs,    "m", <<>>,    Marker \o <<"c1", "cX">>),
      CRow(HostA,  ValidTs,    "n", <<>>,    <<"x", "y", "z", "c1">>) }

\* Rows of a Firefox-family store: host, path, isSecure, expiry, name, value.
FRow(h, ex, n, v) ==
    [host |-> h, path |-> <<"/">>, isSecure |-> FALSE, expiry |-> ex,
     name |-> n, value |-> v]

FirefoxRowChoices ==
    { FRow(HostA, 15001, "n", <<"w">>),
      FRow(HostAB, 0, "n", <<"w">>) }

SeqsUpTo(S, n) == UNION {[1..k -> S] : k \in 0..n}

\* What the bytes of a live Chrome store can be when they are copied:
\* unreadable (a directory, no permission), or a database whose cookies
\* table names the flag column secure, is_secure, or neither.
ChromeStores ==
    {[readable |-> FALSE, dialect |-> "neither", rows |-> <<>>]}
    \cup {[readable |-> TRUE, dialect |-> d, rows |-> r] :
            d \in {"secure", "is_secure"}, r \in SeqsUpTo(ChromeRowChoices, MaxRows)}
    \cup {[readable |-> TRUE, dialect |-> "neither", rows |-> <<>>]}

\* The same for a Firefox store: dialect "moz" has the moz_cookies table.
FirefoxStores ==
    {[readable |-> FALSE, dialect |-> "neither", rows |-> <<>>]}
    \cup {[readable |-> TRUE, dialect |-> "moz", rows |-> r] :
            r \in SeqsUpTo(FirefoxRowChoices, MaxRows)}
    \cup {[readable |-> TRUE, dialect |-> "neither", rows |-> <<>>]}

\* A session cookie as json: host, path, name, value.
SessionEntry(h, n, v) == [host |-> h, path |-> <<"/">>, name |-> n, value |-> v]

\* sessionstore.js: absent, not json, or windows[].cookies[].
SessionFiles ==
    { [exists |-> FALSE, json |-> FALSE, cookies |-> <<>>],
      [exists |-> TRUE,  json |-> FALSE, cookies |-> <<>>],
      [exists |-> TRUE,  json |-> TRUE,  cookies |-> <<SessionEntry(HostB, "s", <<"1">>)>>] }

\* recovery.jsonlz4: absent, not json after decompression, or cookies[].
SessionFilesLz4 ==
    { [exists |-> FALSE, json |-> FALSE, cookies |-> <<>>],
      [exists |-> TRUE,  json |-> FALSE, cookies |-> <<>>],
      [exists |-> TRUE,  json |-> TRUE,  cookies |-> <<SessionEntry(HostA, "n", <<"2">>)>>] }

\* int(time.time()), in days.
Clock == {20000}

\* domain_name arguments.
Filters == {<<>>, <<"a">>, <<"b">>}

\* ------------------------------------------------------------------ state

VARIABLES
    platform,      \* sys.platform
    entry,         \* the entry point called: chrome, firefox or load
    cookie_file,   \* its cookie_file argument (None for load)
    domain_name,   \* its domain_name argument
    fs,            \* the live cookie stores that exist on disk
    keyring_pw,    \* keyring.get_password finds the Chrome Safe Storage entry
    policy,        \* the registry holds the Chrome UserDataDir policy
    ff_manifest,   \* profiles.ini has a section with Default=1, IsRelative=1
    tmp,           \* the temporary directory: file name -> content
    chromeObj,     \* the Chrome instance
    firefoxObj,    \* the Firefox instance
    con,           \* the sqlite connection of each load(): none, open, closed
    cur,           \* cur.fetchall(): the rows the query returned
    idx,           \* position of the row loop in cur
    frame,         \* locals of Chrome.load after the last iteration
    cj,            \* the jar the running Chrome.load / Firefox.load fills
    ret,           \* the jar cookie_fn returned to load()
    returned,      \* per browser, the jar its extractor returned (if it did)
    result,        \* load()'s jar, and at the end the value returned
    bi,            \* position of load()'s loop in BrowserOrder
    pc,            \* the statement about to run
    exc,           \* the exception in flight, or the one that ended the call
    outcome        \* running, returned or raised

env == <<platform, entry, cookie_file, domain_name, fs, keyring_pw, policy, ff_manifest>>

vars == <<platform, entry, cookie_file, domain_name, fs, keyring_pw, policy,
          ff_manifest, tmp, chromeObj, firefoxObj, con, cur, idx, frame, cj,
          ret, returned, result, bi, pc, exc, outcome>>

ChromeTmp == "tmpC.sqlite"

FirefoxTmp == "tmpF.sqlite"

EmptyDisk == [n \in {} |-> None]

Put(disk, name, content) ==
    [n \in DOMAIN disk \cup {name} |-> IF n = name THEN content ELSE disk[n]]

\* os.remove
Remove(disk, name) == [n \in DOMAIN disk \ {name} |-> disk[n]]

NoFrame == [item |-> <<>>, expires |-> <<>>, value |-> <<>>, c |-> <<>>]

InitPc(b) == IF b = "chrome" THEN "chrome_init" ELSE "firefox_init"

\* The stores whose presence the call can observe.
RelevantPaths(plat, ent, arg, pol, manifest) ==
    IF arg # None THEN {arg}
    ELSE (IF ent # "firefox" THEN ChromePaths(plat, pol) ELSE {})
         \cup (IF ent # "chrome" THEN FirefoxPaths(plat, manifest) ELSE {})

Init ==
    /\ platform \in Platforms
    /\ entry \in {"chrome", "firefox", "load"}
    /\ cookie_file \in (IF entry = "load" THEN {None} ELSE {None, ExplicitPath})
    /\ domain_name \in Filters
    /\ keyring_pw \in (IF platform = "darwin" /\ entry # "firefox" THEN BOOLEAN ELSE {TRUE})
    /\ policy \in (IF platform = "win32" /\ entry # "firefox" /\ cookie_file = None
                   THEN BOOLEAN ELSE {FALSE})
    /\ ff_manifest \in (IF platform \in {"linux", "win32"} /\ entry # "chrome"
                           /\ cookie_file = None
                        THEN BOOLEAN ELSE {FALSE})
    /\ fs \in {S \in SUBSET RelevantPaths(platform, entry, cookie_file, policy, ff_manifest) :
                 Cardinality(S) <= MaxFiles}
    /\ tmp = EmptyDisk
    /\ chromeObj = [alive |-> FALSE, tmp_cookie_file |-> "unset", source |-> None]
    /\ firefoxObj = [alive |-> FALSE, tmp_cookie_file |-> None, source |-> None]
    /\ con = [chrome |-> "none", firefox |-> "none"]
    /\ cur = <<>>
    /\ idx = 0
    /\ frame = NoFrame
    /\ cj = {}
    /\ ret = {}
    /\ returned = [chrome |-> <<>>, firefox |-> <<>>]
    /\ result = {}
    /\ bi = 1
    /\ pc = IF entry = "load" THEN InitPc(BrowserOrder[1]) ELSE InitPc(entry)
    /\ exc = None
    /\ outcome = "running"

\* The browser whose extractor is running.
Current == IF entry = "load" THEN BrowserOrder[bi] ELSE entry

Raise(e) == pc' = "raise" /\ exc' = e

\* ------------------------------------------------------ create_local_copy

\* None when the copy can start, else the error create_local_copy raises.
create_local_copy(path, disk) ==
    IF path \in disk THEN None ELSE "BrowserCookieError"

\* ------------------------------------------------------------------ Chrome

\* The value of cookie_file after the platform branch of Chrome.__init__.
ChromeCookieFile(plat, arg, pol, disk) ==
    LET a == IF arg = None THEN NoneV ELSE Str(arg)
    IN  CASE plat = "darwin" -> PyOr(<<a, ExpandUser(MacChrome)>>)
          [] plat = "linux"  ->
                PyOr(<<a>> \o [i \in 1..Len(LinuxChrome) |-> ExpandUser(LinuxChrome[i])])
          [] plat = "win32"  ->
                PyOr(<<a, IF pol THEN Str(WinPolicyPath) ELSE NoneV>>
                     \o [i \in 1..Len(WinChrome) |-> Glob(disk, WinChrome[i])])
          [] OTHER           -> NoneV

\* Chrome.__init__ up to the call of create_local_copy: the error raised,
\* or the path handed to create_local_copy.
ChromeResolve(plat, arg, pol, pw, disk) ==
    LET f == ChromeCookieFile(plat, arg, pol, disk)
    IN  IF plat = "darwin" /\ ~pw
        THEN [exc |-> "AttributeError", path |-> None]
        ELSE IF plat \notin {"darwin", "linux", "win32"}
        THEN [exc |-> "BrowserCookieError", path |-> None]
        ELSE IF f.kind = "list" /\ f.v = <<>>
        THEN [exc |-> "BrowserCookieError", path |-> None]
        ELSE [exc |-> create_local_copy(f.v[1], disk), path |-> f.v[1]]

\* Chrome.__del__
ChromeDel(obj, disk) ==
    IF obj.tmp_cookie_file # "unset" THEN Remove(disk, obj.tmp_cookie_file) ELSE disk

\* One cur.execute of Chrome.load under the flag column named `column`.
Execute(db, column, f) ==
    IF db.dialect = column
    THEN [exc |-> None, rows |-> SelectLike(db.rows, f)]
    ELSE [exc |-> "OperationalError", rows |-> <<>>]

\* The query without the retry.
ExecuteNoFallback(db, f) == Execute(db, "secure", f)

\* try: execute with secure; except OperationalError: execute with is_secure.
ExecuteWithFallback(db, f) ==
    LET first == Execute(db, "secure", f)
    IN  IF first.exc = "OperationalError" THEN Execute(db, "is_secure", f) ELSE first

\* expires after lines 171-175: the 1970-based expiry, or the error of the
\* datetime arithmetic.
ConvertExpiry(ts) ==
    IF ts # 0
    THEN IF ts >= MinDeltaDays /\ ts <= MaxDeltaDays
         THEN [exc |-> None, expires |-> Some(ts - EpochDeltaDays)]
         ELSE [exc |-> "OverflowError", expires |-> <<>>]
    ELSE [exc |-> None, expires |-> Some(ts)]

\* AES-CBC on one block of the modelled ciphertexts.
AesBlock(b) ==
    CASE b = "c1" -> "p"
      [] b = "c2" -> "q"
      [] OTHER    -> "xFF"

\* cipher.feed(data)
Feed(data) == [i \in 1..Len(data) |-> AesBlock(data[i])]

\* bytes.decode("utf-8") succeeds.
Utf8Valid(bytes) == \A i \in 1..Len(bytes) : bytes[i] # "xFF"

\* A decrypt that hands back the ciphertext column when it has no marker.
DecryptDerivedPassEncrypted(value, encrypted_value) ==
    IF value # <<>> THEN [exc |-> None, value |-> value]
    ELSE [exc |-> None, value |-> encrypted_value]

\* Chrome._decrypt off Windows (lines 204-216).
DecryptDerived(value, encrypted_value) ==
    IF value # <<>> \/ Take(encrypted_value, 3) # Marker
    THEN [exc |-> None, value |-> value]
    ELSE LET body == Drop(encrypted_value, 3)
             half == Len(body) \div 2
             decrypted == Feed(Take(body, half)) \o Feed(Drop(body, half))
         IN  IF Utf8Valid(decrypted)
             THEN [exc |-> None, value |-> decrypted]
             ELSE [exc |-> "UnicodeDecodeError", value |-> <<>>]

\* What CryptUnprotectData can answer for a blob.
UnsealOutcomes == {[ok |-> TRUE, data |-> <<"p">>], [ok |-> FALSE, data |-> <<>>]}

\* Chrome._decrypt_windows_chrome
DecryptWindows(value, encrypted_value, unseal) ==
    IF Len(value) # 0 THEN [exc |-> None, value |-> value]
    ELSE IF encrypted_value = <<>> THEN [exc |-> None, value |-> <<>>]
    ELSE IF unseal.ok THEN [exc |-> None, value |-> unseal.data]
    ELSE [exc |-> "RuntimeError", value |-> <<>>]

\* Chrome._decrypt
Decrypt(plat, value, encrypted_value, unseal) ==
    IF plat = "win32"
    THEN DecryptWindows(value, encrypted_value, unseal)
    ELSE DecryptDerived(value, encrypted_value)

\* The body of the row loop of Chrome.load for one row: the error raised
\* (None if none) and the locals it leaves.
ConvertRow(plat, item, unseal, old) ==
    LET e == ConvertExpiry(item.expires_utc)
        d == Decrypt(plat, item.value, item.encrypted_value, unseal)
    IN  IF e.exc # None
        THEN [exc |-> e.exc,
              frame |-> [old EXCEPT !.item = Some(item), !.expires = Some(item.expires_utc)]]
        ELSE IF d.exc # None
        THEN [exc |-> d.exc,
              frame |-> [old EXCEPT !.item = Some(item), !.expires = e.expires]]
        ELSE [exc |-> None,
              frame |-> [item |-> Some(item), expires |-> e.expires, value |-> Some(d.value),
                         c |-> Some(create_cookie(item.host, item.path, item.secure,
                                                  e.expires, item.name, d.value))]]

\* except (OverflowError, OSError): continue
SkippedErrors == {"OverflowError", "OSError"}

\* Chrome(cookie_file, domain_name): lines 104-143 with create_local_copy.
ChromeInit ==
    /\ pc = "chrome_init"
    /\ LET pre == ChromeResolve(platform, cookie_file, policy, keyring_pw, fs)
       IN  IF pre.exc # None
           THEN /\ chromeObj' = [alive |-> TRUE, tmp_cookie_file |-> "unset", source |-> None]
                /\ tmp' = tmp
                /\ Raise(pre.exc)
           ELSE \E store \in ChromeStores :
                    /\ tmp' = Put(tmp, ChromeTmp, store)
                    /\ IF store.readable
                       THEN /\ chromeObj' = [alive |-> TRUE, tmp_cookie_file |-> ChromeTmp,
                                             source |-> pre.path]
                            /\ pc' = "chrome_query"
                            /\ exc' = exc
                       ELSE /\ chromeObj' = [alive |-> TRUE, tmp_cookie_file |-> "unset",
                                             source |-> None]
                            /\ Raise("OSError")
    /\ UNCHANGED <<env, firefoxObj, con, cur, idx, frame, cj, ret, returned, result, bi, outcome>>

\* Chrome.load, lines 156-167: connect, query, new jar.
ChromeQuery ==
    /\ pc = "chrome_query"
    /\ LET r == ExecuteWithFallback(tmp[chromeObj.tmp_cookie_file], domain_name)
       IN  /\ con' = [con EXCEPT !.chrome = "open"]
           /\ IF r.exc # None
              THEN Raise(r.exc) /\ UNCHANGED <<cur, idx, cj>>
              ELSE /\ cur' = r.rows
                   /\ idx' = 1
                   /\ cj' = {}
                   /\ pc' = "chrome_rows"
                   /\ exc' = exc
    /\ UNCHANGED <<env, tmp, chromeObj, firefoxObj, frame, ret, returned, result, bi, outcome>>

\* Chrome.load, lines 169-180: one iteration of the row loop.
ChromeRow ==
    /\ pc = "chrome_rows"
    /\ idx <= Len(cur)
    /\ \E unseal \in UnsealOutcomes :
         LET r == ConvertRow(platform, cur[idx], unseal, frame)
         IN  /\ frame' = r.frame
             /\ IF r.exc = None
                THEN cj' = set_cookie(cj, r.frame.c[1]) /\ idx' = idx + 1 /\ UNCHANGED <<pc, exc>>
                ELSE IF r.exc \in SkippedErrors
                THEN idx' = idx + 1 /\ UNCHANGED <<cj, pc, exc>>
                ELSE Raise(r.exc) /\ UNCHANGED <<cj, idx>>
    /\ UNCHANGED <<env, tmp, chromeObj, firefoxObj, con, cur, ret, returned, result, bi, outcome>>

\* Chrome.load, line 181: the loop is over, con.close().
ChromeClose ==
    /\ pc = "chrome_rows"
    /\ idx > Len(cur)
    /\ con' = [con EXCEPT !.chrome = "closed"]
    /\ pc' = "chrome_loaded"
    /\ UNCHANGED <<env, tmp, chromeObj, firefoxObj, cur, idx, frame, cj, ret, returned,
                   result, bi, exc, outcome>>

\* Chrome.load returns cj to chrome(), chrome() returns it (lines 182, 348):
\* the frame goes, the temporary Chrome instance is reclaimed (__del__).
ChromeReturn ==
    /\ pc = "chrome_loaded"
    /\ tmp' = ChromeDel(chromeObj, tmp)
    /\ chromeObj' = [chromeObj EXCEPT !.alive = FALSE]
    /\ cur' = <<>>
    /\ idx' = 0
    /\ frame' = NoFrame
    /\ cj' = {}
    /\ returned' = [returned EXCEPT !.chrome = Some(cj)]
    /\ IF entry = "load"
       THEN ret' = cj /\ pc' = "load_merge" /\ UNCHANGED <<result, outcome>>
       ELSE result' = cj /\ outcome' = "returned" /\ pc' = "done" /\ ret' = ret
    /\ UNCHANGED <<env, firefoxObj, con, bi, exc>>

\* ----------------------------------------------------------------- Firefox

\* Firefox.get_default_profile: the cookie store of the default relative
\* profile, or the NameError of `return none` when no section qualifies.
get_default_profile(manifest) ==
    IF manifest
    THEN [exc |-> None, path |-> FfProfilePath]
    ELSE [exc |-> "NameError", path |-> None]

\* cookie_files of find_cookie_file: the globs of the platform, then the
\* glob of the default profile's store.
FirefoxCookieFiles(globs, disk) ==
    PyOr([i \in 1..Len(globs) |-> Glob(disk, globs[i])] \o <<Glob(disk, FfProfilePath)>>)

\* Firefox.find_cookie_file
find_cookie_file(plat, manifest, disk) ==
    LET prof  == get_default_profile(manifest)
        files == FirefoxCookieFiles(IF plat = "linux" THEN LinuxFirefox ELSE WinFirefox, disk)
    IN  IF plat = "darwin"
        THEN [exc |-> "UnboundLocalError", path |-> None]
        ELSE IF plat \notin {"linux", "win32"}
        THEN [exc |-> "BrowserCookieError", path |-> None]
        ELSE IF prof.exc # None
        THEN [exc |-> prof.exc, path |-> None]
        ELSE IF Truthy(files)
        THEN [exc |-> None, path |-> files.v[1]]
        ELSE [exc |-> "BrowserCookieError", path |-> None]

\* Firefox.__init__ up to the copy: the error raised, or the path copied.
FirefoxResolve(plat, arg, manifest, disk) ==
    LET found == IF arg # None THEN [exc |-> None, path |-> arg]
                 ELSE find_cookie_file(plat, manifest, disk)
    IN  IF found.exc # None THEN found
        ELSE [exc |-> create_local_copy(found.path, disk), path |-> found.path]

\* Firefox.__del__
FirefoxDel(obj, disk) ==
    IF obj.tmp_cookie_file # None THEN Remove(disk, obj.tmp_cookie_file) ELSE disk

\* The cookies of the rows of moz_cookies, in order: create_cookie(*item).
FirefoxCookies(rows) ==
    [i \in 1..Len(rows) |->
        create_cookie(rows[i].host, rows[i].path, rows[i].isSecure,
                      Some(rows[i].expiry), rows[i].name, rows[i].value)]

\* Firefox.__create_session_cookie
create_session_cookie(cookie_json, now) ==
    create_cookie(cookie_json.host, cookie_json.path, FALSE, Some(now + SessionDays),
                  cookie_json.name, cookie_json.value)

\* __add_session_cookies / __add_session_cookies_lz4 on one artifact.
add_session_cookies(jar, file, now) ==
    IF ~file.exists THEN jar
    ELSE IF ~file.json THEN jar
    ELSE SetSeq(jar, [i \in 1..Len(file.cookies) |->
                        create_session_cookie(file.cookies[i], now)])

\* Firefox(cookie_file, domain_name): lines 220-228.
FirefoxInit ==
    /\ pc = "firefox_init"
    /\ LET pre == FirefoxResolve(platform, cookie_file, ff_manifest, fs)
       IN  IF pre.exc # None
           THEN /\ firefoxObj' = [alive |-> TRUE, tmp_cookie_file |-> None, source |-> None]
                /\ tmp' = tmp
                /\ Raise(pre.exc)
           ELSE \E store \in FirefoxStores :
                    /\ tmp' = Put(tmp, FirefoxTmp, store)
                    /\ IF store.readable
                       THEN /\ firefoxObj' = [alive |-> TRUE, tmp_cookie_file |-> FirefoxTmp,
                                              source |-> pre.path]
                            /\ pc' = "firefox_query"
                            /\ exc' = exc
                       ELSE /\ firefoxObj' = [alive |-> TRUE, tmp_cookie_file |-> None,
                                              source |-> None]
                            /\ Raise("OSError")
    /\ UNCHANGED <<env, chromeObj, con, cur, idx, frame, cj, ret, returned, result, bi, outcome>>

\* Firefox.load, lines 320-325: connect, query, new jar.
FirefoxQuery ==
    /\ pc = "firefox_query"
    /\ LET db == tmp[firefoxObj.tmp_cookie_file]
       IN  /\ con' = [con EXCEPT !.firefox = "open"]
           /\ IF db.dialect # "moz"
              THEN Raise("OperationalError") /\ UNCHANGED <<cur, idx, cj>>
              ELSE /\ cur' = SelectLike(db.rows, domain_name)
                   /\ idx' = 1
                   /\ cj' = {}
                   /\ pc' = "firefox_rows"
                   /\ exc' = exc
    /\ UNCHANGED <<env, tmp, chromeObj, firefoxObj, frame, ret, returned, result, bi, outcome>>

\* Firefox.load, lines 326-329: the row loop and con.close().
FirefoxRows ==
    /\ pc = "firefox_rows"
    /\ cj' = SetSeq(cj, FirefoxCookies(cur))
    /\ idx' = Len(cur) + 1
    /\ con' = [con EXCEPT !.firefox = "closed"]
    /\ pc' = "firefox_session"
    /\ UNCHANGED <<env, tmp, chromeObj, firefoxObj, cur, frame, ret, returned, result, bi,
                   exc, outcome>>

\* Firefox.load, line 331: __add_session_cookies(cj).
FirefoxSession ==
    /\ pc = "firefox_session"
    /\ \E file \in SessionFiles, now \in Clock :
         cj' = add_session_cookies(cj, file, now)
    /\ pc' = "firefox_session_lz4"
    /\ UNCHANGED <<env, tmp, chromeObj, firefoxObj, con, cur, idx, frame, ret, returned,
                   result, bi, exc, outcome>>

\* Firefox.load, line 332: __add_session_cookies_lz4(cj).
FirefoxSessionLz4 ==
    /\ pc = "firefox_session_lz4"
    /\ \E file \in SessionFilesLz4, now \in Clock :
         cj' = add_session_cookies(cj, file, now)
    /\ pc' = "firefox_loaded"
    /\ UNCHANGED <<env, tmp, chromeObj, firefoxObj, con, cur, idx, frame, ret, returned,
                   result, bi, exc, outcome>>

\* Firefox.load returns cj, firefox() returns it (lines 334, 355): the
\* temporary Firefox instance is reclaimed (__del__).
FirefoxReturn ==
    /\ pc = "firefox_loaded"
    /\ tmp' = FirefoxDel(firefoxObj, tmp)
    /\ firefoxObj' = [firefoxObj EXCEPT !.alive = FALSE]
    /\ cur' = <<>>
    /\ idx' = 0
    /\ cj' = {}
    /\ returned' = [returned EXCEPT !.firefox = Some(cj)]
    /\ IF entry = "load"
       THEN ret' = cj /\ pc' = "load_merge" /\ UNCHANGED <<result, outcome>>
       ELSE result' = cj /\ outcome' = "returned" /\ pc' = "done" /\ ret' = ret
    /\ UNCHANGED <<env, chromeObj, con, frame, bi, exc>>

\* -------------------------------------------------------------------- load

\* The for loop of load() moves to its next browser, or load() is at its
\* return statement.
Advance ==
    IF bi < Len(BrowserOrder)
    THEN bi' = bi + 1 /\ pc' = InitPc(BrowserOrder[bi + 1])
    ELSE bi' = bi /\ pc' = "load_return"

\* load(), lines 365-366: every cookie of the returned jar is set in cj.
LoadMerge ==
    /\ pc = "load_merge"
    /\ result' = SetAll(result, ret)
    /\ ret' = {}
    /\ Advance
    /\ UNCHANGED <<env, tmp, chromeObj, firefoxObj, con, cur, idx, frame, cj, returned,
                   exc, outcome>>

\* load(), lines 367-368: except BrowserCookieError: pass. The exception
\* and the instance its frames referenced are reclaimed.
LoadCatch ==
    /\ pc = "raise"
    /\ entry = "load"
    /\ exc = "BrowserCookieError"
    /\ exc' = None
    /\ IF Current = "chrome"
       THEN /\ tmp' = ChromeDel(chromeObj, tmp)
            /\ chromeObj' = [chromeObj EXCEPT !.alive = FALSE]
            /\ firefoxObj' = firefoxObj
       ELSE /\ tmp' = FirefoxDel(firefoxObj, tmp)
            /\ firefoxObj' = [firefoxObj EXCEPT !.alive = FALSE]
            /\ chromeObj' = chromeObj
    /\ Advance
    /\ UNCHANGED <<env, con, cur, idx, frame, cj, ret, returned, result, outcome>>

\* Any other exception leaves the entry point: nothing on the way catches
\* it, and its traceback keeps the frames and the instance reachable.
Propagate ==
    /\ pc = "raise"
    /\ ~(entry = "load" /\ exc = "BrowserCookieError")
    /\ outcome' = "raised"
    /\ pc' = "done"
    /\ UNCHANGED <<env, tmp, chromeObj, firefoxObj, con, cur, idx, frame, cj, ret, returned,
                   result, bi, exc>>

\* load(), line 369: return cj.
LoadReturn ==
    /\ pc = "load_return"
    /\ outcome' = "returned"
    /\ pc' = "done"
    /\ UNCHANGED <<env, tmp, chromeObj, firefoxObj, con, cur, idx, frame, cj, ret, returned,
                   result, bi, exc>>

Next ==
    \/ ChromeInit
    \/ ChromeQuery
    \/ ChromeRow
    \/ ChromeClose
    \/ ChromeReturn
    \/ FirefoxInit
    \/ FirefoxQuery
    \/ FirefoxRows
    \/ FirefoxSession
    \/ FirefoxSessionLz4
    \/ FirefoxReturn
    \/ LoadMerge
    \/ LoadCatch
    \/ Propagate
    \/ LoadReturn

Spec == Init /\ [][Next]_vars

\* ------------------------------------------------------------ properties

Done == pc = "done"

ChromeJar == IF returned.chrome = <<>> THEN {} ELSE returned.chrome[1]

FirefoxJar == IF returned.firefox = <<>> THEN {} ELSE returned.firefox[1]

HasKey(jar, k) == \E x \in jar : Key(x) = k

\* The Chrome candidates of a platform in the order the spec gives them:
\* policy override, default profile, alternate channels.
ChromeCandidates(plat, pol) ==
    CASE plat = "darwin" -> <<MacChrome>>
      [] plat = "linux"  -> LinuxChrome
      [] plat = "win32"  -> (IF pol THEN <<WinPolicyPath>> ELSE <<>>) \o WinChrome
      [] OTHER           -> <<>>

Existing(cands, disk) == SelectSeq(cands, LAMBDA p : p \in disk)

\* The row the last finished iteration of Chrome.load's loop worked on.
LastItem == cur[idx - 1]

\* The row loop has finished an iteration without raising.
AfterIteration == pc \in {"chrome_rows", "chrome_loaded"} /\ idx > 1

ExpiryInRange(ts) == ts >= MinDeltaDays /\ ts <= MaxDeltaDays

\* C1: load() never raises: whatever each browser's extraction does, the
\* call ends by returning a jar, and that jar holds a cookie for every key
\* of every extractor that returned.
C1_LoadNeverRaises ==
    (entry = "load" /\ Done) =>
        /\ outcome = "returned"
        /\ \A c \in ChromeJar \cup FirefoxJar : HasKey(result, Key(c))

\* C2: when a call has ended, by return or by an exception, no snapshot
\* file is left in the temporary directory.
C2_NoSnapshotLeft == Done => DOMAIN tmp = {}

\* C3: every cookie returned has a domain that contains domain_name as a
\* substring, and with the empty filter every row of a store that is kept
\* is in the jar.
C3_DomainFilter ==
    /\ (Done /\ outcome = "returned") =>
            \A c \in result : Contains(c.domain, domain_name)
    /\ (pc = "firefox_loaded" /\ domain_name = <<>>) =>
            \A c \in Range(FirefoxCookies(tmp[FirefoxTmp].rows)) : HasKey(cj, Key(c))
    /\ (pc = "chrome_loaded" /\ domain_name = <<>>) =>
            \A i \in 1..Len(tmp[ChromeTmp].rows) :
                LET r == tmp[ChromeTmp].rows[i]
                IN  (r.expires_utc = 0 \/ ExpiryInRange(r.expires_utc)) =>
                        HasKey(cj, <<LowerStr(r.host), r.path, r.name>>)

\* C4: when load() returns, its jar holds at most one cookie per
\* (domain, path, name), every cookie in it came from one of the two
\* extractors, and for a key both produced it holds the Firefox cookie.
C4_MergeLastWriterWins ==
    (entry = "load" /\ Done /\ outcome = "returned") =>
        /\ \A x, y \in result : Key(x) = Key(y) => x = y
        /\ result \subseteq ChromeJar \cup FirefoxJar
        /\ \A f \in FirefoxJar : HasKey(ChromeJar, Key(f)) => f \in result

C4_Witness ==
    /\ entry = "load" /\ Done /\ outcome = "returned"
    /\ \E c \in ChromeJar, f \in FirefoxJar : Key(c) = Key(f) /\ c # f

\* C5: with no explicit path, Chrome snapshots the first candidate (in the
\* platform's order) that exists, and reports that no store was found only
\* when no candidate exists.
C5_FirstExistingCandidate ==
    (cookie_file = None /\ platform \in {"darwin", "linux", "win32"}) =>
        LET found == Existing(ChromeCandidates(platform, policy), fs)
        IN  /\ pc = "chrome_query" => (found # <<>> /\ chromeObj.source = found[1])
            /\ (pc = "raise" /\ Current = "chrome" /\ exc = "BrowserCookieError") =>
                    found = <<>>

\* C6: on the derived-key platforms a row that cannot be converted is
\* skipped: the row loop never raises, and when it is over every row whose
\* expiry converts and whose value decodes is in the jar.
C6_BadRowSkipped ==
    platform \in DerivedKeyPlatforms =>
        /\ ~(pc = "raise" /\ Current = "chrome" /\ idx >= 1)
        /\ pc = "chrome_loaded" =>
              \A i \in 1..Len(cur) :
                  (/\ cur[i].expires_utc = 0 \/ ExpiryInRange(cur[i].expires_utc)
                   /\ DecryptDerived(cur[i].value, cur[i].encrypted_value).exc = None)
                  => HasKey(cj, <<LowerStr(cur[i].host), cur[i].path, cur[i].name>>)

\* C7: once Chrome.load has run its query on a snapshot, a store that has
\* the secure column or the is_secure column has not failed the query and
\* every row whose host matches was fetched, in order; the query fails only
\* on a store with neither column.
C7_SchemaFallback ==
    (con.chrome = "open" /\ ChromeTmp \in DOMAIN tmp) =>
        LET db == tmp[ChromeTmp]
        IN  /\ db.dialect \in {"secure", "is_secure"} =>
                    /\ exc # "OperationalError"
                    /\ cur = SelectLike(db.rows, domain_name)
            /\ exc = "OperationalError" => db.dialect = "neither"

C7_Witness ==
    /\ pc = "chrome_rows"
    /\ tmp[ChromeTmp].dialect = "is_secure"
    /\ Len(cur) = MaxRows
    /\ Len(tmp[ChromeTmp].rows) = MaxRows

\* C8: the cookie made from a row whose expires_utc is 0 has no expiry, and
\* the cookie made from a row with another (representable) expires_utc has
\* that time counted from 1970.
C8_ZeroExpiryIsSession ==
    AfterIteration =>
        /\ LastItem.expires_utc = 0 => frame.c[1].expires = <<>>
        /\ (LastItem.expires_utc # 0 /\ ExpiryInRange(LastItem.expires_utc)) =>
                frame.c[1].expires = Some(LastItem.expires_utc - EpochDeltaDays)

\* The case C9 is about: off Windows, the loop has just decrypted a row
\* with an empty value column and an encrypted_value without the marker.
C9_Case ==
    /\ platform \in DerivedKeyPlatforms
    /\ AfterIteration
    /\ LastItem.expires_utc = 0 \/ ExpiryInRange(LastItem.expires_utc)
    /\ LastItem.value = <<>>
    /\ Take(LastItem.encrypted_value, 3) # Marker

\* C9 as stated: in that case _decrypt returns encrypted_value unchanged.
C9_ReturnsEncryptedValue ==
    C9_Case => frame.value = Some(LastItem.encrypted_value)

\* C9 as amended: in that case _decrypt returns value, the empty plaintext
\* column, and none of the bytes of encrypted_value.
C9_ReturnsValue ==
    C9_Case => frame.value = Some(LastItem.value) /\ frame.c[1].value = <<>>

C9_Witness == C9_Case /\ LastItem.encrypted_value # <<>>

\* C10: when a call has ended, by return or by an exception, no sqlite
\* connection is left open.
C10_HandleClosed == Done => (con.chrome # "open" /\ con.firefox # "open")

====
